---- MODULE Spec2Model ----
(***************************************************************************)
(* Model of the student grouping system: answers and questions (survey.py),*)
(* criteria (criterion.py), the survey aggregator (survey.py) and students *)
(* (course.py).                                                            *)
(*                                                                         *)
(* Python floats are modelled as exact rationals [num, den] in lowest      *)
(* terms.  Every quotient the code forms has a small integer numerator and *)
(* denominator, and for a double h in [0,1] the IEEE sum h + (1.0 - h)     *)
(* rounds to exactly 1.0, so equality of the modelled rationals agrees     *)
(* with == on the floats for the values compared here.                     *)
(***************************************************************************)
EXTENDS Integers, Sequences, FiniteSets, TLC

----------------------------------------------------------------------------
(* Bounds *)

\* longest answer list handed to score_answers
MaxAnswers == 3
\* largest weight handed to set_weight
MaxWeight == 2
\* number of set_answer calls followed on one student
MaxSets == 3
\* longest student list handed to enroll_students
MaxEnroll == 2
\* largest group handed to add_group
MaxGroupSize == 2

----------------------------------------------------------------------------
(* Rationals standing for Python floats *)

Abs(x) == IF x < 0 THEN -x ELSE x

RECURSIVE GCD(_, _)
GCD(a, b) == IF b = 0 THEN a ELSE GCD(b, a % b)

Rat(n, d) ==
    LET g == GCD(Abs(n), Abs(d))
        sg == IF d < 0 THEN -1 ELSE 1
    IN  [num |-> sg * (n \div g), den |-> sg * (d \div g)]

RZero == [num |-> 0, den |-> 1]
ROne == [num |-> 1, den |-> 1]
RAdd(a, b) == Rat(a.num * b.den + b.num * a.den, a.den * b.den)
RSub(a, b) == Rat(a.num * b.den - b.num * a.den, a.den * b.den)
RMulInt(a, k) == Rat(a.num * k, a.den)
RDivInt(a, k) == Rat(a.num, a.den * k)
RLeq(a, b) == a.num * b.den <= b.num * a.den

----------------------------------------------------------------------------
(* Answer contents: Python values of type str, int, bool and list[str] *)

Str(x) == [t |-> "str", n |-> 0, s |-> <<x>>]
Int_(k) == [t |-> "int", n |-> k, s |-> <<>>]
Bool(b) == [t |-> "bool", n |-> IF b THEN 1 ELSE 0, s |-> <<>>]
List(l) == [t |-> "list", n |-> 0, s |-> l]

\* Python ==: bool is a subclass of int (True == 1), other types compare
\* by value within their own type; lists compare element by element in order
PyEq(a, b) ==
    IF a.t \in {"int", "bool"} /\ b.t \in {"int", "bool"}
    THEN a.n = b.n
    ELSE a = b

\* Python `x in lst`
PyIn(x, lst) == \E k \in 1..Len(lst) : PyEq(x, lst[k])

\* hash(content) succeeds: lists are unhashable
Hashable(c) == c.t # "list"

Range(f) == {f[k] : k \in DOMAIN f}

----------------------------------------------------------------------------
(* Questions *)

MultipleChoiceQuestion(id, options) ==
    [id |-> id, type |-> "MultipleChoice", options |-> options,
     min |-> 0, max |-> 0]

NumericQuestion(id, min_, max_) ==
    [id |-> id, type |-> "Numeric", options |-> <<>>,
     min |-> min_, max |-> max_]

YesNoQuestion(id) ==
    [id |-> id, type |-> "YesNo", options |-> <<Bool(TRUE), Bool(FALSE)>>,
     min |-> 0, max |-> 0]

CheckboxQuestion(id, options) ==
    [id |-> id, type |-> "Checkbox", options |-> options,
     min |-> 0, max |-> 0]

MultipleChoiceValidate(q, c) == PyIn(c, q.options)

NumericValidate(q, c) == c.t = "int" /\ q.min <= c.n /\ c.n <= q.max

YesNoValidate(q, c) == c.t = "bool"

CheckboxValidate(q, c) ==
    IF c.t # "list" \/ Len(c.s) = 0 THEN FALSE
    ELSE IF Len(c.s) # Cardinality(Range(c.s)) THEN FALSE
    ELSE \A k \in 1..Len(c.s) : PyIn(Str(c.s[k]), q.options)

validate_answer(q, c) ==
    CASE q.type = "MultipleChoice" -> MultipleChoiceValidate(q, c)
      [] q.type = "Numeric" -> NumericValidate(q, c)
      [] q.type = "YesNo" -> YesNoValidate(q, c)
      [] q.type = "Checkbox" -> CheckboxValidate(q, c)

is_valid(c, q) == validate_answer(q, c)

MultipleChoiceSimilarity(q, c1, c2) == IF PyEq(c1, c2) THEN ROne ELSE RZero

NumericSimilarity(q, c1, c2) ==
    LET diff == Abs(c1.n - c2.n)
        num_range == q.max - q.min
    IN  RSub(ROne, Rat(diff, num_range))

CheckboxSimilarity(q, c1, c2) ==
    LET set1 == Range(c1.s)
        set2 == Range(c2.s)
        union == set1 \cup set2
        inter == set1 \cap set2
    IN  IF Cardinality(union) = 0 THEN ROne
        ELSE Rat(Cardinality(inter), Cardinality(union))

get_similarity(q, c1, c2) ==
    CASE q.type \in {"MultipleChoice", "YesNo"} ->
            MultipleChoiceSimilarity(q, c1, c2)
      [] q.type = "Numeric" -> NumericSimilarity(q, c1, c2)
      [] q.type = "Checkbox" -> CheckboxSimilarity(q, c1, c2)

----------------------------------------------------------------------------
(* Outcome of a call: a returned float, or a raised exception *)

Ok(r) == [kind |-> "ok", num |-> r.num, den |-> r.den]
Raise(e) == [kind |-> e, num |-> 0, den |-> 1]
NoCall == [kind |-> "none", num |-> 0, den |-> 1]
Val(res) == [num |-> res.num, den |-> res.den]

----------------------------------------------------------------------------
(* Criteria *)

\* the first loop of score_answers: some answer is not valid for the question
AnyInvalid(q, answers) ==
    \E k \in 1..Len(answers) : ~is_valid(answers[k], q)

\* the nested loops `for i in range(n): for j in range(i + 1, n)`, carrying
\* the running total and count
\* a variant that restarts the inner loop at j = i: each answer is also
\* compared with itself
RECURSIVE HomLoopSelfPairs(_, _, _, _, _, _)
HomLoopSelfPairs(q, answers, i, j, total, count) ==
    IF i > Len(answers) THEN [total |-> total, count |-> count]
    ELSE IF j > Len(answers)
         THEN HomLoopSelfPairs(q, answers, i + 1, i + 1, total, count)
    ELSE HomLoopSelfPairs(q, answers, i, j + 1,
                          RAdd(total, get_similarity(q, answers[i], answers[j])),
                          count + 1)

RECURSIVE HomLoop(_, _, _, _, _, _)
HomLoop(q, answers, i, j, total, count) ==
    IF i > Len(answers) THEN [total |-> total, count |-> count]
    ELSE IF j > Len(answers) THEN HomLoop(q, answers, i + 1, i + 2, total, count)
    ELSE HomLoop(q, answers, i, j + 1,
                 RAdd(total, get_similarity(q, answers[i], answers[j])),
                 count + 1)

\* a variant that returns for a single answer before validating it
HomogeneousScoreLenFirst(q, answers) ==
    IF Len(answers) = 1 THEN Ok(ROne)
    ELSE IF AnyInvalid(q, answers) THEN Raise("InvalidAnswerError")
    ELSE LET acc == HomLoop(q, answers, 1, 2, RZero, 0)
         IN  Ok(RDivInt(acc.total, acc.count))

HomogeneousScore(q, answers) ==
    IF AnyInvalid(q, answers) THEN Raise("InvalidAnswerError")
    ELSE IF Len(answers) = 1 THEN Ok(ROne)
    ELSE LET acc == HomLoop(q, answers, 1, 2, RZero, 0)
         IN  Ok(RDivInt(acc.total, acc.count))

\* a variant with its own single-answer case copied from the parent class
HeterogeneousScoreOwnSingle(q, answers) ==
    LET sup == HomogeneousScore(q, answers)
    IN  IF sup.kind # "ok" THEN sup
        ELSE IF Len(answers) = 1 THEN Ok(ROne)
        ELSE Ok(RSub(ROne, Val(sup)))

HeterogeneousScore(q, answers) ==
    LET sup == HomogeneousScore(q, answers)
    IN  IF sup.kind # "ok" THEN sup
        ELSE Ok(RSub(ROne, Val(sup)))

\* counts[ans.content] = counts.get(ans.content, 0) + 1 over the answers:
\* the frequency of each dict key, keys compared with Python ==
Freq(answers, c) ==
    Cardinality({k \in 1..Len(answers) : PyEq(answers[k], c)})

LonelyMemberScore(q, answers) ==
    IF AnyInvalid(q, answers) THEN Raise("InvalidAnswerError")
    ELSE IF Len(answers) = 1 THEN Ok(RZero)
    ELSE IF \E k \in 1..Len(answers) : ~Hashable(answers[k])
         THEN Raise("TypeError")
    ELSE IF \E k \in 1..Len(answers) : Freq(answers, answers[k]) = 1
         THEN Ok(RZero)
    ELSE Ok(ROne)

Criteria == {"Homogeneous", "Heterogeneous", "LonelyMember"}

score_answers(criterion, q, answers) ==
    CASE criterion = "Homogeneous" -> HomogeneousScore(q, answers)
      [] criterion = "Heterogeneous" -> HeterogeneousScore(q, answers)
      [] criterion = "LonelyMember" -> LonelyMemberScore(q, answers)

----------------------------------------------------------------------------
(* Students: the _answers dict, question id -> content, None when absent *)

None == [t |-> "None", n |-> 0, s |-> <<>>]

\* Student.get_answer: self._answers.get(question.id)
get_answer(st_ans, q) == st_ans[q.id]

\* a variant that keeps an answer already recorded (dict.setdefault)
set_answerKeepFirst(st_ans, q, c) ==
    IF st_ans[q.id] # None THEN st_ans ELSE [st_ans EXCEPT ![q.id] = c]

\* Student.set_answer: self._answers[question.id] = answer
set_answer(st_ans, q, c) == [st_ans EXCEPT ![q.id] = c]

\* Student.has_answer: question.id in self._answers
has_answer(st_ans, q) == st_ans[q.id] # None

----------------------------------------------------------------------------
(* Course: the students list, each student a record of its id and name *)

\* a variant that tests only the first student of the list
EnrolledAfterFirstOnly(students, lst) ==
    IF Len(lst) > 0 /\ lst[1].id \in {students[k].id : k \in 1..Len(students)}
    THEN students
    ELSE students \o lst

\* Course.enroll_students: self.students afterwards
EnrolledAfter(students, lst) ==
    LET existing_ids == {students[k].id : k \in 1..Len(students)}
    IN  IF \E k \in 1..Len(lst) : lst[k].id \in existing_ids
        THEN students
        ELSE students \o lst

\* the stable insertion of x behind the entries of the sorted list acc whose
\* attribute is not greater
InsertByKey(acc, x, attribute) ==
    LET n == Cardinality({m \in 1..Len(acc) : acc[m][attribute] <= x[attribute]})
    IN  SubSeq(acc, 1, n) \o <<x>> \o SubSeq(acc, n + 1, Len(acc))

RECURSIVE SortLoop(_, _, _, _)
SortLoop(lst, attribute, k, acc) ==
    IF k > Len(lst) THEN acc
    ELSE SortLoop(lst, attribute, k + 1, InsertByKey(acc, lst[k], attribute))

\* a variant that sorts in non-increasing order
sort_studentsDescending(lst, attribute) ==
    LET up == SortLoop(lst, attribute, 1, <<>>)
    IN  [k \in 1..Len(up) |-> up[Len(up) + 1 - k]]

\* sort_students: sorted(lst, key=...) is stable and non-decreasing
sort_students(lst, attribute) == SortLoop(lst, attribute, 1, <<>>)

\* Course.get_students
get_students(students) == sort_students(students, "id")

----------------------------------------------------------------------------
(* Survey *)

\* the last question of the list with the given id (later entries of the
\* constructor's loop overwrite earlier ones)
LastWithId(qlist, id) ==
    qlist[CHOOSE k \in 1..Len(qlist) :
              /\ qlist[k].id = id
              /\ \A m \in (k + 1)..Len(qlist) : qlist[m].id # id]

\* Survey.__init__: the three dicts after the constructor's loop
SurveyQuestions(qlist) ==
    [id \in {qlist[k].id : k \in 1..Len(qlist)} |-> LastWithId(qlist, id)]

SurveyCriteria(qlist) ==
    [id \in {qlist[k].id : k \in 1..Len(qlist)} |-> "Homogeneous"]

SurveyWeights(qlist) ==
    [id \in {qlist[k].id : k \in 1..Len(qlist)} |-> 1]

\* sorted(self._questions): the ids in increasing order
RECURSIVE Sorted(_)
Sorted(S) ==
    IF S = {} THEN <<>>
    ELSE LET m == CHOOSE x \in S : \A y \in S : x <= y
         IN  <<m>> \o Sorted(S \ {m})

\* Survey.get_questions
get_questions(qs) ==
    LET ids == Sorted(DOMAIN qs)
    IN  [k \in 1..Len(ids) |-> qs[ids[k]]]

\* Survey._get_ans: the students' answers to q, or none when one is missing
get_ans(ans, sts, q) ==
    IF \E k \in 1..Len(sts) : get_answer(ans[sts[k]], q) = None
    THEN [none |-> TRUE, list |-> <<>>]
    ELSE [none |-> FALSE,
          list |-> [k \in 1..Len(sts) |-> get_answer(ans[sts[k]], q)]]

\* a variant without the membership test: an unknown id gets an entry
WeightsAfterSetNoGuard(ws, weight, qid) == (qid :> weight) @@ ws

\* Survey.set_weight on the _weights dict: the dict afterwards
WeightsAfterSet(ws, weight, qid) ==
    IF qid \notin DOMAIN ws THEN ws ELSE [ws EXCEPT ![qid] = weight]

\* Survey.set_criterion on the _criteria dict: the dict afterwards
CriteriaAfterSet(cr, criterion, qid) ==
    IF qid \notin DOMAIN cr THEN cr ELSE [cr EXCEPT ![qid] = criterion]

\* a Python bool returned by a call
PyBool(b) == [kind |-> "bool", num |-> IF b THEN 1 ELSE 0, den |-> 1]

\* the loop of score_students from the k-th question on; an
\* InvalidAnswerError is caught and gives 0.0, any other exception propagates
RECURSIVE ScoreLoop(_, _, _, _, _, _, _)
ScoreLoop(qs, cr, ws, ans, sts, k, total) ==
    LET qlist == get_questions(qs)
    IN  IF k > Len(qlist) THEN Ok(RDivInt(total, Cardinality(DOMAIN qs)))
        ELSE LET q == qlist[k]
                 answers == get_ans(ans, sts, q)
             IN  IF answers.none THEN Ok(RZero)
                 ELSE LET ans_scores == score_answers(cr[q.id], q, answers.list)
                      IN  IF ans_scores.kind = "InvalidAnswerError" THEN Ok(RZero)
                          ELSE IF ans_scores.kind # "ok" THEN ans_scores
                          ELSE ScoreLoop(qs, cr, ws, ans, sts, k + 1,
                                   RAdd(total, RMulInt(Val(ans_scores), ws[q.id])))

\* a variant that returns the weighted sum without averaging over the questions
score_studentsSummed(qs, cr, ws, ans, sts) ==
    LET n == Cardinality(DOMAIN qs)
        res == ScoreLoop(qs, cr, ws, ans, sts, 1, RZero)
    IN  IF n = 0 THEN Ok(RZero)
        ELSE IF res.kind # "ok" THEN res
        ELSE Ok(RMulInt(Val(res), n))

\* Survey.score_students
score_students(qs, cr, ws, ans, sts) ==
    IF Cardinality(DOMAIN qs) = 0 THEN Ok(RZero)
    ELSE ScoreLoop(qs, cr, ws, ans, sts, 1, RZero)

----------------------------------------------------------------------------
(* Group and Grouping: a group is the list of its members' ids, a grouping  *)
(* the list of its groups in insertion order                                *)

\* Group.get_members: a copy of the member list
get_members(group) == group

\* Grouping.get_groups: the groups in insertion order
get_groups(grp) == grp

\* the ids of the members of all groups of a grouping
MemberIds(grp) == UNION {Range(get_members(grp[k])) : k \in 1..Len(grp)}

\* a variant that looks only at the first member of the new group
GroupingAfterAddFirstOnly(grp, group) ==
    IF Len(group) > 0 /\ group[1] \in MemberIds(grp)
    THEN [groups |-> grp, ok |-> FALSE]
    ELSE [groups |-> Append(grp, group), ok |-> TRUE]

\* Grouping.add_group: the groups afterwards and the returned bool
GroupingAfterAdd(grp, group) ==
    IF Range(group) \cap MemberIds(grp) # {}
    THEN [groups |-> grp, ok |-> FALSE]
    ELSE [groups |-> Append(grp, group), ok |-> TRUE]

\* the loop of score_grouping from the k-th group on; an exception of
\* score_students propagates
RECURSIVE GroupingLoop(_, _, _, _, _, _, _)
GroupingLoop(qs, cr, ws, ans, groups, k, total) ==
    IF k > Len(groups) THEN Ok(RDivInt(total, Len(groups)))
    ELSE LET sc == score_students(qs, cr, ws, ans, get_members(groups[k]))
         IN  IF sc.kind # "ok" THEN sc
             ELSE GroupingLoop(qs, cr, ws, ans, groups, k + 1,
                               RAdd(total, Val(sc)))

\* a variant that averages over the number of students instead of groups
score_groupingPerStudent(qs, cr, ws, ans, grp) ==
    LET groups == get_groups(grp)
        res == GroupingLoop(qs, cr, ws, ans, groups, 1, RZero)
    IN  IF Len(groups) = 0 THEN Ok(RZero)
        ELSE IF res.kind # "ok" THEN res
        ELSE Ok(RDivInt(RMulInt(Val(res), Len(groups)),
                        Cardinality(MemberIds(grp))))

\* Survey.score_grouping
score_grouping(qs, cr, ws, ans, grp) ==
    LET groups == get_groups(grp)
    IN  IF Len(groups) = 0 THEN Ok(RZero)
        ELSE GroupingLoop(qs, cr, ws, ans, groups, 1, RZero)

----------------------------------------------------------------------------
(* Groupers: make_grouping(course, survey) for a group size *)

\* the ids of the k-th chunk of size students of a list
Chunk(lst, k, size) == [m \in 1..size |-> lst[(k - 1) * size + m].id]

RECURSIVE AlphaLoop(_, _, _, _)
AlphaLoop(sorted, size, k, grp) ==
    IF k * size > Len(sorted) THEN grp
    ELSE AlphaLoop(sorted, size, k + 1,
                   GroupingAfterAdd(grp, Chunk(sorted, k, size)).groups)

\* AlphaGrouper.make_grouping: the students sorted by name, ties in id order,
\* cut into consecutive groups of size members
AlphaGrouping(students, size) ==
    AlphaLoop(sort_students(get_students(students), "name"), size, 1, <<>>)

\* the swaps of one member from each of two different groups: the indices of
\* the two groups and of the member in each
SwapCandidates(grp) ==
    {c \in (1..Len(grp)) \X (1..Len(grp)) \X (1..MaxGroupSize)
            \X (1..MaxGroupSize) :
        /\ c[1] < c[2]
        /\ c[3] <= Len(grp[c[1]])
        /\ c[4] <= Len(grp[c[2]])}

Swapped(grp, c) ==
    [grp EXCEPT ![c[1]] = [@ EXCEPT ![c[3]] = grp[c[2]][c[4]]],
                ![c[2]] = [@ EXCEPT ![c[4]] = grp[c[1]][c[3]]]]

\* group-index then member-index order of the candidates
Before(c, d) ==
    \E k \in 1..4 : c[k] < d[k] /\ \A m \in 1..(k - 1) : c[m] = d[m]

RLess(a, b) == ~RLeq(b, a)

\* the outcome of one pass, given the score of grp and the set of the
\* candidate swaps paired with the scores of the groupings they give: an
\* exception of score_grouping ends the call; else the swap with the largest
\* positive improvement is applied, the first in candidate order among equals
PassOutcome(grp, current, scored) ==
    LET raising == {p \in scored : p[2].kind # "ok"}
        improving ==
            {p \in scored : p[2].kind = "ok" /\ RLess(Val(current), Val(p[2]))}
        firstRaising ==
            CHOOSE p \in raising : \A d \in raising : p = d \/ Before(p[1], d[1])
        best ==
            CHOOSE p \in improving : \A d \in improving \ {p} :
                \/ RLess(Val(d[2]), Val(p[2]))
                \/ d[2] = p[2] /\ Before(p[1], d[1])
    IN  IF current.kind # "ok" THEN [kind |-> current.kind, groups |-> grp]
        ELSE IF raising # {}
        THEN [kind |-> firstRaising[2].kind, groups |-> grp]
        ELSE IF improving = {} THEN [kind |-> "grouping", groups |-> grp]
        ELSE [kind |-> "search", groups |-> Swapped(grp, best[1])]

\* a variant of the pass that applies the first candidate swap whether or not
\* it improves the score
GreedyPassFirstSwap(qs, cr, ws, ans, grp) ==
    LET cands == SwapCandidates(grp)
        first == CHOOSE c \in cands : \A d \in cands : c = d \/ Before(c, d)
    IN  IF cands = {} \/ score_grouping(qs, cr, ws, ans, grp).kind # "ok"
        THEN [kind |-> "grouping", groups |-> grp]
        ELSE IF score_grouping(qs, cr, ws, ans, Swapped(grp, first)).kind # "ok"
        THEN [kind |-> "grouping", groups |-> grp]
        ELSE [kind |-> "search", groups |-> Swapped(grp, first)]

\* one pass of the greedy search over grp: the score of grp, then the score
\* of every candidate swap, are evaluated once each, and the search returns
\* grp when no swap improves
GreedyPass(qs, cr, ws, ans, grp) ==
    LET outcomes ==
            UNION {{PassOutcome(grp, current, scored) :
                        scored \in {IF current.kind # "ok" THEN {}
                                    ELSE {<<c, score_grouping(qs, cr, ws, ans,
                                                   Swapped(grp, c))>> :
                                              c \in SwapCandidates(grp)}}} :
                      current \in {score_grouping(qs, cr, ws, ans, grp)}}
    IN  CHOOSE out \in outcomes : TRUE

----------------------------------------------------------------------------
(* Inputs *)

\* contents an answer may carry: valid and invalid ones for each question
Contents ==
    {Str("a"), Str("b"), Int_(0), Int_(1), Int_(2), Bool(TRUE), Bool(FALSE),
     Int_(3), List(<<"a">>), List(<<"a", "b">>), List(<<"b", "a">>), List(<<>>),
     List(<<"a", "a">>), List(<<"c">>)}

\* one question of each class
QuestionCatalogue ==
    {MultipleChoiceQuestion(1, <<Str("a"), Str("b")>>),
     NumericQuestion(1, 0, 2),
     YesNoQuestion(1),
     CheckboxQuestion(1, <<Str("a"), Str("b")>>)}

SeqsUpTo(S, n) == UNION {[1..k -> S] : k \in 1..n}

\* the questions a survey is built from: two share the id 1
SurveyCatalogue ==
    {MultipleChoiceQuestion(1, <<Str("a"), Str("b")>>),
     CheckboxQuestion(1, <<Str("a"), Str("b")>>),
     NumericQuestion(2, 0, 2)}

\* the question lists handed to Survey.__init__
SurveyLists == {<<>>} \cup SeqsUpTo(SurveyCatalogue, 2)

QIds == {1, 2}

\* the questions a student is asked about: two share the id 1
StudentQuestions ==
    {YesNoQuestion(1),
     MultipleChoiceQuestion(1, <<Str("a"), Str("b")>>),
     NumericQuestion(2, 0, 2)}

\* the contents a student records
StudentContents == {Bool(TRUE), Str("a"), Int_(1)}
StudentIds == {1, 2}

\* one student's _answers: what is recorded under id 1 and under id 2
Sheet(c1, c2) == [id \in QIds |-> IF id = 1 THEN c1 ELSE c2]

\* the students' recorded answers: valid for the questions of the survey,
\* invalid for them, or missing
AnswerSheets ==
    {Sheet(Str("a"), Int_(1)), Sheet(Str("b"), Int_(2)),
     Sheet(Str("a"), Int_(2)),
     Sheet(List(<<"a">>), Int_(1)), Sheet(List(<<"a", "b">>), Int_(2)),
     Sheet(Str("a"), Str("a")), Sheet(List(<<"a">>), Str("a")),
     Sheet(None, Int_(1)), Sheet(Str("a"), None), Sheet(List(<<"a">>), None)}

\* the student objects: two objects for each id
StudentPool == {[id |-> i, name |-> n] : i \in {1, 2, 3}, n \in {1, 2}}

\* the lists handed to enroll_students: pairwise distinct ids
EnrollLists ==
    {l \in {<<>>} \cup SeqsUpTo(StudentPool, MaxEnroll) :
        \A i, k \in 1..Len(l) : i # k => l[i].id # l[k].id}

\* Student(id, name), the name given by its rank in alphabetical order
Student(id, name) == [id |-> id, name |-> name]

\* the student lists of the courses handed to make_grouping, in enrolment
\* order: four students, a name shared by two of them, and six students
Populations ==
    {<<Student(3, 1), Student(1, 2), Student(4, 1), Student(2, 3)>>,
     <<Student(1, 1), Student(2, 2), Student(3, 3), Student(4, 4),
       Student(5, 5), Student(6, 6)>>}

\* the group sizes of which the population size is a positive multiple
GroupSizes(students) == {n \in 1..MaxGroupSize : Len(students) % n = 0}

\* the students groups are made of
GroupPool == {1, 2, 3}

\* the groups handed to add_group: non-empty, members pairwise distinct
GroupLists ==
    {l \in SeqsUpTo(GroupPool, MaxGroupSize) :
        \A i, k \in 1..Len(l) : i # k => l[i] # l[k]}

\* the groupings over a pool of students: lists of pairwise disjoint groups
\* of at most MaxGroupSize members in id order, the empty grouping included
GroupsOver(pool) ==
    {l \in SeqsUpTo(pool, MaxGroupSize) :
        \A i, k \in 1..Len(l) : i < k => l[i] < l[k]}

GroupingsOver(pool) ==
    {<<>>} \cup
    {g \in SeqsUpTo(GroupsOver(pool), Cardinality(pool)) :
        \A i, k \in 1..Len(g) : i # k => Range(g[i]) \cap Range(g[k]) = {}}

\* the groupings that place every student of the pool, and the empty one
Partitions(pool) ==
    {<<>>} \cup {g \in GroupingsOver(pool) : MemberIds(g) = pool}

\* the groupings of the students of a survey handed to score_grouping
SurveyGroupings == Partitions(StudentIds)

\* the groupings a Grouping object of the students of GroupPool can hold
PoolGroupings == GroupingsOver(GroupPool)

\* the question lists and recorded answers of the surveys whose groupings are
\* scored
ScoreSurveys ==
    {<<>>,
     <<CheckboxQuestion(1, <<Str("a"), Str("b")>>)>>,
     <<MultipleChoiceQuestion(1, <<Str("a"), Str("b")>>),
       NumericQuestion(2, 0, 2)>>}

ScoreSheets ==
    {Sheet(Str("a"), Int_(1)), Sheet(Str("b"), Int_(2)),
     Sheet(List(<<"a">>), None)}

\* the recorded answers of the students of a course: any sheets for up to
\* four students; of six students, the students 1 and 3, 2 and 5, 4 and 6
\* have recorded the same answers, each pair its own
PairSheets ==
    {Sheet(Str("a"), Int_(0)), Sheet(Str("a"), Int_(1)),
     Sheet(Str("b"), Int_(2))}

PairOf == <<1, 2, 1, 3, 2, 3>>

CourseAnswers(students) ==
    IF Len(students) = Len(PairOf)
    THEN {[id \in 1..Len(PairOf) |-> pick[PairOf[id]]] :
              pick \in {f \in [Range(PairOf) -> PairSheets] :
                           \A i, k \in Range(PairOf) : i # k => f[i] # f[k]}}
    ELSE [{students[k].id : k \in 1..Len(students)} -> ScoreSheets]

\* the non-empty lists of distinct students handed to score_students
StudentLists ==
    {l \in SeqsUpTo(StudentIds, Cardinality(StudentIds)) :
        \A i, k \in 1..Len(l) : i # k => l[i] # l[k]}

----------------------------------------------------------------------------
(* State *)

VARIABLES
    \* a direct criterion call: its question, its answers, the three outcomes
    cq, cans, rHom, rHet, rLon,
    \* a survey (_questions, _criteria, _weights), the students' _answers,
    \* the last call on the survey and what it returned
    questions, criteria, weights, answers, call, ret,
    \* one student: its _answers, the set_answer calls made so far, the last
    \* call and what it returned
    st_answers, st_hist, st_call, st_ret,
    \* a course: its students list and the list of the last enroll_students
    co_students, co_call,
    \* a grouping: its groups, the last add_group call and what it returned
    grouping, g_call, g_ret

varsCrit == <<cq, cans, rHom, rHet, rLon>>

varsSurvey == <<questions, criteria, weights, answers, call, ret>>

varsStudent == <<st_answers, st_hist, st_call, st_ret>>

varsCourse == <<co_students, co_call>>

vars == <<cq, cans, rHom, rHet, rLon,
          questions, criteria, weights, answers, call, ret,
          st_answers, st_hist, st_call, st_ret,
          co_students, co_call,
          grouping, g_call, g_ret>>

varsGroup == <<grouping, g_call, g_ret>>

\* the parts of the state a specification does not use
IdleCrit ==
    /\ cq = YesNoQuestion(1)
    /\ cans = <<>>
    /\ rHom = NoCall
    /\ rHet = NoCall
    /\ rLon = NoCall

NoSurveyCall ==
    [op |-> "none", q |-> 0, w |-> 0, c |-> "", sts |-> <<>>, grp |-> <<>>]

NoStudentCall == [op |-> "none", q |-> YesNoQuestion(1), c |-> None]

IdleStudent ==
    /\ st_answers = [id \in QIds |-> None]
    /\ st_hist = <<>>
    /\ st_call = NoStudentCall
    /\ st_ret = None

NoCourseCall == [op |-> "none", arg |-> <<>>]

IdleCourse ==
    /\ co_students = <<>>
    /\ co_call = NoCourseCall

NoGroupCall == [op |-> "none", arg |-> <<>>]

IdleGroup ==
    /\ grouping = <<>>
    /\ g_call = NoGroupCall
    /\ g_ret = NoCall

IdleSurvey ==
    /\ questions = SurveyQuestions(<<>>)
    /\ criteria = SurveyCriteria(<<>>)
    /\ weights = SurveyWeights(<<>>)
    /\ answers = [st \in StudentIds |-> [id \in QIds |-> None]]
    /\ call = NoSurveyCall
    /\ ret = NoCall

----------------------------------------------------------------------------
(* Direct calls to the three criteria on one question and answer list *)

InitCrit ==
    /\ cq \in QuestionCatalogue
    /\ cans \in SeqsUpTo(Contents, MaxAnswers)
    /\ rHom = NoCall
    /\ rHet = NoCall
    /\ rLon = NoCall
    /\ IdleSurvey
    /\ IdleStudent
    /\ IdleCourse
    /\ IdleGroup

CallHomogeneous ==
    /\ rHom = NoCall
    /\ rHom' = HomogeneousScore(cq, cans)
    /\ UNCHANGED <<cq, cans, rHet, rLon>>
    /\ UNCHANGED <<varsSurvey, varsStudent, varsCourse, varsGroup>>

CallHeterogeneous ==
    /\ rHet = NoCall
    /\ rHet' = HeterogeneousScore(cq, cans)
    /\ UNCHANGED <<cq, cans, rHom, rLon>>
    /\ UNCHANGED <<varsSurvey, varsStudent, varsCourse, varsGroup>>

CallLonelyMember ==
    /\ rLon = NoCall
    /\ rLon' = LonelyMemberScore(cq, cans)
    /\ UNCHANGED <<cq, cans, rHom, rHet>>
    /\ UNCHANGED <<varsSurvey, varsStudent, varsCourse, varsGroup>>

NextCrit == CallHomogeneous \/ CallHeterogeneous \/ CallLonelyMember

SpecCrit == InitCrit /\ [][NextCrit]_vars

----------------------------------------------------------------------------
(* A survey, its mutators and score_students over recorded answers *)

Init ==
    /\ \E qlist \in SurveyLists :
           /\ questions = SurveyQuestions(qlist)
           /\ criteria = SurveyCriteria(qlist)
           /\ weights = SurveyWeights(qlist)
    /\ answers \in [StudentIds -> AnswerSheets]
    /\ call = NoSurveyCall
    /\ ret = NoCall
    /\ IdleCrit
    /\ IdleStudent
    /\ IdleCourse
    /\ IdleGroup

\* survey.set_weight(weight, question), question.id = qid
SetWeight(weight, qid) ==
    /\ weights' = WeightsAfterSet(weights, weight, qid)
    /\ ret' = PyBool(qid \in DOMAIN weights)
    /\ call' = [op |-> "set_weight", q |-> qid, w |-> weight, c |-> "",
                sts |-> <<>>, grp |-> <<>>]
    /\ UNCHANGED <<questions, criteria, answers>>
    /\ UNCHANGED <<varsCrit, varsStudent, varsCourse, varsGroup>>

\* survey.set_criterion(criterion, question), question.id = qid
SetCriterion(criterion, qid) ==
    /\ criteria' = CriteriaAfterSet(criteria, criterion, qid)
    /\ ret' = PyBool(qid \in DOMAIN criteria)
    /\ call' = [op |-> "set_criterion", q |-> qid, w |-> 0, c |-> criterion,
                sts |-> <<>>, grp |-> <<>>]
    /\ UNCHANGED <<questions, weights, answers>>
    /\ UNCHANGED <<varsCrit, varsStudent, varsCourse, varsGroup>>

\* survey.score_students(students)
ScoreStudents(sts) ==
    /\ ret' = score_students(questions, criteria, weights, answers, sts)
    /\ call' = [op |-> "score_students", q |-> 0, w |-> 0, c |-> "",
                sts |-> sts, grp |-> <<>>]
    /\ UNCHANGED <<questions, criteria, weights, answers>>
    /\ UNCHANGED <<varsCrit, varsStudent, varsCourse, varsGroup>>

\* survey.score_grouping(grp)
ScoreGrouping(grp) ==
    /\ ret' = score_grouping(questions, criteria, weights, answers, grp)
    /\ call' = [op |-> "score_grouping", q |-> 0, w |-> 0, c |-> "",
                sts |-> <<>>, grp |-> grp]
    /\ UNCHANGED <<questions, criteria, weights, answers>>
    /\ UNCHANGED <<varsCrit, varsStudent, varsCourse, varsGroup>>

Next ==
    \/ \E weight \in 1..MaxWeight, qid \in QIds : SetWeight(weight, qid)
    \/ \E criterion \in Criteria, qid \in QIds : SetCriterion(criterion, qid)
    \/ \E sts \in StudentLists : ScoreStudents(sts)
    \/ \E grp \in SurveyGroupings : ScoreGrouping(grp)

Spec == Init /\ [][Next]_vars

----------------------------------------------------------------------------
(* score_grouping on a configured survey, recorded answers and a grouping
   built by the Grouping constructor and add_group *)

\* a survey after its constructor and any set_criterion and set_weight calls,
\* and the answers of the students of GroupPool
InitScore ==
    /\ \E qlist \in ScoreSurveys :
           /\ questions = SurveyQuestions(qlist)
           /\ criteria \in [DOMAIN SurveyCriteria(qlist) -> Criteria]
           /\ weights \in [DOMAIN SurveyWeights(qlist) -> 1..MaxWeight]
    /\ answers \in [GroupPool -> ScoreSheets]
    /\ call = NoSurveyCall
    /\ ret = NoCall
    /\ grouping \in PoolGroupings
    /\ g_call = NoGroupCall
    /\ g_ret = NoCall
    /\ IdleCrit
    /\ IdleStudent
    /\ IdleCourse

NextScore == ScoreGrouping(grouping)

SpecScore == InitScore /\ [][NextScore]_vars

----------------------------------------------------------------------------
(* One student: set_answer, get_answer and has_answer *)

\* Student.__init__: no answer recorded
InitStudent ==
    /\ st_answers = [id \in QIds |-> None]
    /\ st_hist = <<>>
    /\ st_call = NoStudentCall
    /\ st_ret = None
    /\ IdleCrit
    /\ IdleSurvey
    /\ IdleCourse
    /\ IdleGroup

\* student.set_answer(q, Answer(c)); returns None
StudentSetAnswer(q, c) ==
    /\ Len(st_hist) < MaxSets
    /\ st_answers' = set_answer(st_answers, q, c)
    /\ st_hist' = Append(st_hist, [id |-> q.id, c |-> c])
    /\ st_call' = [op |-> "set_answer", q |-> q, c |-> c]
    /\ st_ret' = None
    /\ UNCHANGED <<varsCrit, varsSurvey, varsCourse, varsGroup>>

\* student.get_answer(q)
StudentGetAnswer(q) ==
    /\ st_ret' = get_answer(st_answers, q)
    /\ st_call' = [op |-> "get_answer", q |-> q, c |-> None]
    /\ UNCHANGED <<st_answers, st_hist>>
    /\ UNCHANGED <<varsCrit, varsSurvey, varsCourse, varsGroup>>

\* student.has_answer(q)
StudentHasAnswer(q) ==
    /\ st_ret' = Bool(has_answer(st_answers, q))
    /\ st_call' = [op |-> "has_answer", q |-> q, c |-> None]
    /\ UNCHANGED <<st_answers, st_hist>>
    /\ UNCHANGED <<varsCrit, varsSurvey, varsCourse, varsGroup>>

NextStudent ==
    \/ \E q \in StudentQuestions, c \in StudentContents : StudentSetAnswer(q, c)
    \/ \E q \in StudentQuestions : StudentGetAnswer(q)
    \/ \E q \in StudentQuestions : StudentHasAnswer(q)

SpecStudent == InitStudent /\ [][NextStudent]_vars

----------------------------------------------------------------------------
(* A course and its enroll_students calls *)

\* Course.__init__: no student enrolled
InitCourse ==
    /\ co_students = <<>>
    /\ co_call = NoCourseCall
    /\ IdleCrit
    /\ IdleSurvey
    /\ IdleStudent
    /\ IdleGroup

\* course.enroll_students(lst)
EnrollStudents(lst) ==
    /\ co_students' = EnrolledAfter(co_students, lst)
    /\ co_call' = [op |-> "enroll_students", arg |-> lst]
    /\ UNCHANGED <<varsCrit, varsSurvey, varsStudent, varsGroup>>

NextCourse == \E lst \in EnrollLists : EnrollStudents(lst)

SpecCourse == InitCourse /\ [][NextCourse]_vars

----------------------------------------------------------------------------
(* A grouping and its add_group calls *)

\* Grouping.__init__: no group
InitGrouping ==
    /\ grouping = <<>>
    /\ g_call = NoGroupCall
    /\ g_ret = NoCall
    /\ IdleCrit
    /\ IdleSurvey
    /\ IdleStudent
    /\ IdleCourse

\* grouping.add_group(Group(group))
AddGroup(group) ==
    /\ grouping' = GroupingAfterAdd(grouping, group).groups
    /\ g_ret' = PyBool(GroupingAfterAdd(grouping, group).ok)
    /\ g_call' = [op |-> "add_group", arg |-> group]
    /\ UNCHANGED <<varsCrit, varsSurvey, varsStudent, varsCourse>>

NextGrouping == \E group \in GroupLists : AddGroup(group)

SpecGrouping == InitGrouping /\ [][NextGrouping]_vars

----------------------------------------------------------------------------
(* make_grouping of the two groupers on a course and a configured survey *)

Searching == [kind |-> "search", num |-> 0, den |-> 1]
Returned == [kind |-> "grouping", num |-> 0, den |-> 1]

\* a course with its students enrolled and their answers recorded, a survey
\* after its constructor and any set_criterion and set_weight calls
InitGrouper ==
    /\ co_students \in Populations
    /\ co_call = NoCourseCall
    /\ \E qlist \in ScoreSurveys :
           /\ questions = SurveyQuestions(qlist)
           /\ criteria \in [DOMAIN SurveyCriteria(qlist) -> Criteria]
           /\ weights \in [DOMAIN SurveyWeights(qlist) -> {1, MaxWeight}]
    /\ answers \in CourseAnswers(co_students)
    /\ call = NoSurveyCall
    /\ ret = NoCall
    /\ grouping = <<>>
    /\ g_call = NoGroupCall
    /\ g_ret = NoCall
    /\ IdleCrit
    /\ IdleStudent

\* AlphaGrouper(size).make_grouping(course, survey)
MakeAlphaGrouping(size) ==
    /\ g_ret # Searching
    /\ grouping' = AlphaGrouping(co_students, size)
    /\ g_call' = [op |-> "alpha", arg |-> <<size>>]
    /\ g_ret' = Returned
    /\ UNCHANGED <<varsCrit, varsSurvey, varsStudent, varsCourse>>

\* GreedyGrouper(size).make_grouping(course, survey): the search starts from
\* the alphabetical grouping
GreedyStart(size) ==
    /\ g_ret # Searching
    /\ grouping' = AlphaGrouping(co_students, size)
    /\ g_call' = [op |-> "greedy", arg |-> <<size>>]
    /\ g_ret' = Searching
    /\ UNCHANGED <<varsCrit, varsSurvey, varsStudent, varsCourse>>

\* one pass of the running search
GreedyStep ==
    /\ g_ret = Searching
    /\ LET out == GreedyPass(questions, criteria, weights, answers, grouping)
       IN  /\ grouping' = out.groups
           /\ g_ret' = [kind |-> out.kind, num |-> 0, den |-> 1]
    /\ UNCHANGED g_call
    /\ UNCHANGED <<varsCrit, varsSurvey, varsStudent, varsCourse>>

NextGrouper ==
    \/ \E size \in GroupSizes(co_students) : MakeAlphaGrouping(size)
    \/ \E size \in GroupSizes(co_students) : GreedyStart(size)
    \/ GreedyStep

SpecGrouper == InitGrouper /\ [][NextGrouper]_vars

----------------------------------------------------------------------------
(* Properties of the criteria, checked under SpecCrit *)

\* the answers of the call are all valid for its question
AllValid == \A k \in 1..Len(cans) : validate_answer(cq, cans[k])

CritResults == {rHom, rHet, rLon}

\* C3: for every criterion and every non-empty answer list, score_answers
\* raises InvalidAnswerError if and only if at least one answer fails
\* validate_answer for the question (a call that raises returns no score: its
\* outcome is the exception).
C3_RaisesIffInvalid ==
    \A r \in CritResults :
        r # NoCall => ((r.kind = "InvalidAnswerError") <=> ~AllValid)

\* all three criteria were called on a single invalid answer, and raised
C3_Witness ==
    /\ Len(cans) = 1
    /\ ~AllValid
    /\ \A r \in CritResults : r.kind = "InvalidAnswerError"

\* C4: for every question and every non-empty list of valid answers, one
\* answer included, the Homogeneous and Heterogeneous scores add up to 1.
C4_HomPlusHetIsOne ==
    (AllValid /\ rHom # NoCall /\ rHet # NoCall) =>
        /\ rHom.kind = "ok"
        /\ rHet.kind = "ok"
        /\ RAdd(Val(rHom), Val(rHet)) = ROne

\* both criteria scored the same single valid answer
C4_Witness ==
    /\ Len(cans) = 1
    /\ AllValid
    /\ rHom = Ok(ROne)
    /\ rHet = Ok(RZero)

\* the unordered pairs of distinct positions of a list of n answers
Pairs(n) == {p \in (1..n) \X (1..n) : p[1] < p[2]}

RECURSIVE SimSum(_, _, _)
SimSum(S, q, lst) ==
    IF S = {} THEN RZero
    ELSE LET p == CHOOSE x \in S : TRUE
         IN  RAdd(get_similarity(q, lst[p[1]], lst[p[2]]),
                  SimSum(S \ {p}, q, lst))

\* C5: on valid answers HomogeneousCriterion.score_answers returns 1 for one
\* answer, and otherwise the sum of get_similarity over the pairs of positions
\* i < j divided by n*(n-1)/2; the result lies in [0,1].
C5_HomIsPairAverage ==
    (AllValid /\ rHom # NoCall) =>
        LET n == Len(cans)
        IN  /\ rHom.kind = "ok"
            /\ n = 1 => Val(rHom) = ROne
            /\ n > 1 => Val(rHom) =
                   RDivInt(SimSum(Pairs(n), cq, cans), (n * (n - 1)) \div 2)
            /\ RLeq(RZero, Val(rHom))
            /\ RLeq(Val(rHom), ROne)

\* three valid answers, two alike and one different, average 1/3
C5_Witness ==
    /\ Len(cans) = 3
    /\ AllValid
    /\ rHom = Ok(Rat(1, 3))

\* the number of answers of the call whose content equals c
Occurrences(c) == Cardinality({k \in 1..Len(cans) : cans[k] = c})

\* C6: on valid answers LonelyMemberCriterion.score_answers returns 0 iff
\* some content appears exactly once, and 1 iff every content appears at
\* least twice.
C6_LonelyIffUnique ==
    (AllValid /\ rLon # NoCall) =>
        /\ rLon = Ok(RZero) <=> \E k \in 1..Len(cans) : Occurrences(cans[k]) = 1
        /\ rLon = Ok(ROne) <=> \A k \in 1..Len(cans) : Occurrences(cans[k]) >= 2

\* the number of answers of the call that hold the same set of options as c
SameSetOccurrences(c) ==
    Cardinality({k \in 1..Len(cans) : Range(cans[k].s) = Range(c.s)})

\* C7: LonelyMemberCriterion.score_answers returns 0 or 1 for valid answers
\* of every question type, and for checkbox answers counts two contents as
\* the same exactly when they hold the same set of options.
C7_LonelyAllTypes ==
    (AllValid /\ rLon # NoCall) =>
        /\ rLon \in {Ok(RZero), Ok(ROne)}
        /\ cq.type = "Checkbox" =>
               (rLon = Ok(RZero) <=>
                    \E k \in 1..Len(cans) : SameSetOccurrences(cans[k]) = 1)

----------------------------------------------------------------------------
(* Properties of the survey, checked under Spec *)

\* the answers the students of the last call have recorded under a question id
Gathered(id) == [k \in 1..Len(call.sts) |-> answers[call.sts[k]][id]]

\* every student of the last call holds a valid answer to every question
AllAnsweredValid ==
    \A id \in DOMAIN questions : \A k \in 1..Len(call.sts) :
        /\ Gathered(id)[k] # None
        /\ validate_answer(questions[id], Gathered(id)[k])

\* some student of the last call holds an invalid answer to some question
SomeAnswerInvalid ==
    \E id \in DOMAIN questions : \E k \in 1..Len(call.sts) :
        /\ Gathered(id)[k] # None
        /\ ~validate_answer(questions[id], Gathered(id)[k])

\* the sum over the question ids in S of criterion score times weight
RECURSIVE WeightedSum(_)
WeightedSum(S) ==
    IF S = {} THEN RZero
    ELSE LET id == CHOOSE x \in S : TRUE
             sc == score_answers(criteria[id], questions[id], Gathered(id))
         IN  RAdd(RMulInt(Val(sc), weights[id]), WeightedSum(S \ {id}))

\* C1: for a survey with at least one question and students who each hold a
\* valid answer to every question, score_students returns the sum over the
\* questions of criterion score times weight, divided by the number of
\* questions.
C1_ScoreIsWeightedSumOverCount ==
    (call.op = "score_students" /\ DOMAIN questions # {} /\ AllAnsweredValid) =>
        ret = Ok(RDivInt(WeightedSum(DOMAIN questions),
                         Cardinality(DOMAIN questions)))

\* C2: score_students never raises InvalidAnswerError; it returns 0.0 for a
\* survey without questions, and 0.0 whenever some gathered answer is invalid
\* for its question, whatever the other questions score.
C2_InvalidGivesZero ==
    call.op = "score_students" =>
        /\ ret.kind # "InvalidAnswerError"
        /\ DOMAIN questions = {} => ret = Ok(RZero)
        /\ SomeAnswerInvalid => ret = Ok(RZero)

\* C8: set_weight and set_criterion with an id that is not in the survey
\* return False and leave questions, criteria and weights unchanged; with an
\* id of the survey they return True and change only that id's weight
\* (criterion), every other entry and the set of ids staying as they were.
C8_MutatorsFrame ==
    [][/\ call'.op = "set_weight" =>
            /\ questions' = questions
            /\ criteria' = criteria
            /\ DOMAIN weights' = DOMAIN weights
            /\ call'.q \notin DOMAIN questions =>
                   (ret' = PyBool(FALSE) /\ weights' = weights)
            /\ call'.q \in DOMAIN questions =>
                   /\ ret' = PyBool(TRUE)
                   /\ weights'[call'.q] = call'.w
                   /\ \A id \in DOMAIN weights \ {call'.q} :
                          weights'[id] = weights[id]
       /\ call'.op = "set_criterion" =>
            /\ questions' = questions
            /\ weights' = weights
            /\ DOMAIN criteria' = DOMAIN criteria
            /\ call'.q \notin DOMAIN questions =>
                   (ret' = PyBool(FALSE) /\ criteria' = criteria)
            /\ call'.q \in DOMAIN questions =>
                   /\ ret' = PyBool(TRUE)
                   /\ criteria'[call'.q] = call'.c
                   /\ \A id \in DOMAIN criteria \ {call'.q} :
                          criteria'[id] = criteria[id]]_vars

\* set_weight was refused for an id the survey does not hold, after a
\* set_criterion on the id it does hold
C8_Witness ==
    /\ call.op = "set_weight"
    /\ call.q \notin DOMAIN questions
    /\ ret = PyBool(FALSE)
    /\ \E id \in DOMAIN questions : criteria[id] = "LonelyMember"

----------------------------------------------------------------------------
(* Properties of a student, checked under SpecStudent *)

\* C9: has_answer(question) returns True if and only if the student has a
\* recorded answer under the question's id and that answer is valid for the
\* question.
C9_HasAnswerIffRecordedAndValid ==
    st_call.op = "has_answer" =>
        (st_ret = Bool(TRUE) <=>
            /\ st_answers[st_call.q.id] # None
            /\ validate_answer(st_call.q, st_answers[st_call.q.id]))

\* the content of the last set_answer call of the history under an id, None
\* when there is none
LastRecorded(hist, id) ==
    IF \A k \in 1..Len(hist) : hist[k].id # id THEN None
    ELSE hist[CHOOSE k \in 1..Len(hist) :
                  /\ hist[k].id = id
                  /\ \A m \in (k + 1)..Len(hist) : hist[m].id # id].c

\* C10: get_answer(question) returns the answer most recently recorded under
\* the question's id, or None if none was recorded; set_answer for one id
\* changes no other id's answer; an id that has an answer never goes back to
\* having none.
C10_LastRecordedWins ==
    [][/\ st_call'.op = "get_answer" =>
            st_ret' = LastRecorded(st_hist', st_call'.q.id)
       /\ st_call'.op = "set_answer" =>
            \A id \in QIds \ {st_call'.q.id} : st_answers'[id] = st_answers[id]
       /\ \A id \in QIds : st_answers[id] # None => st_answers'[id] # None]_vars

\* get_answer returned the replacement of an earlier answer, with another id
\* answered in between
C10_Witness ==
    /\ st_call.op = "get_answer"
    /\ Len(st_hist) = 3
    /\ st_hist[1].id = st_call.q.id
    /\ st_hist[2].id # st_call.q.id
    /\ st_hist[3].id = st_call.q.id
    /\ st_hist[1].c # st_hist[3].c
    /\ st_ret = st_hist[3].c

----------------------------------------------------------------------------
(* Properties of a course, checked under SpecCourse *)

\* the ids of a list of students
IdsOf(lst) == {lst[k].id : k \in 1..Len(lst)}

\* no two positions of the list hold the same id
DistinctIds(lst) == \A i, k \in 1..Len(lst) : i # k => lst[i].id # lst[k].id

\* C11: after any sequence of enroll_students calls, each with pairwise
\* distinct ids, no two students of the course share an id; a call whose list
\* holds an id already enrolled leaves the students list unchanged, and a call
\* without such an id appends the whole list.
C11_EnrollAllOrNothing ==
    [][co_call'.op = "enroll_students" =>
          /\ DistinctIds(co_students')
          /\ IdsOf(co_call'.arg) \cap IdsOf(co_students) # {} =>
                 co_students' = co_students
          /\ IdsOf(co_call'.arg) \cap IdsOf(co_students) = {} =>
                 co_students' = co_students \o co_call'.arg]_vars

\* a list whose second student is already enrolled was refused
C11_Witness ==
    /\ co_call.op = "enroll_students"
    /\ Len(co_call.arg) = 2
    /\ Len(co_students) = 1
    /\ co_call.arg[1].id # co_students[1].id
    /\ co_call.arg[2].id = co_students[1].id

----------------------------------------------------------------------------
(* Properties of a grouping, checked under SpecGrouping *)

\* no student id belongs to two groups of the grouping
NoSharedMember(grp) ==
    \A i, k \in 1..Len(grp) : i # k => Range(grp[i]) \cap Range(grp[k]) = {}

\* C12: after any sequence of add_group calls no student id belongs to two
\* groups; add_group returns True and appends the group exactly when none of
\* its members is in an existing group, and otherwise returns False and
\* leaves the group list and the member-id set as they were.
C12_AddGroupAllOrNothing ==
    [][g_call'.op = "add_group" =>
          LET overlap == Range(g_call'.arg) \cap MemberIds(grouping) # {}
          IN  /\ NoSharedMember(grouping')
              /\ g_ret' = PyBool(~overlap)
              /\ ~overlap => grouping' = Append(grouping, g_call'.arg)
              /\ overlap => /\ grouping' = grouping
                            /\ MemberIds(grouping') = MemberIds(grouping)]_vars

\* a group whose second member is already grouped was refused
C12_Witness ==
    /\ g_call.op = "add_group"
    /\ g_ret = PyBool(FALSE)
    /\ Len(g_call.arg) = 2
    /\ g_call.arg[1] \notin MemberIds(grouping)
    /\ g_call.arg[2] \in MemberIds(grouping)

----------------------------------------------------------------------------
(* Bounds of the objective, checked under Spec *)

ScoreCalls == {"score_students", "score_grouping"}

RECURSIVE WeightSum(_)
WeightSum(S) ==
    IF S = {} THEN 0
    ELSE LET id == CHOOSE x \in S : TRUE
         IN  weights[id] + WeightSum(S \ {id})

\* the average weight of the survey's questions, 0 for no questions
AverageWeight ==
    IF DOMAIN weights = {} THEN RZero
    ELSE Rat(WeightSum(DOMAIN weights), Cardinality(DOMAIN weights))

\* C17 as stated: a value returned by score_students or score_grouping lies
\* between 0.0 and 1.0 inclusive.
C17_ObjectiveInUnitInterval ==
    (call.op \in ScoreCalls /\ ret.kind = "ok") =>
        RLeq(RZero, Val(ret)) /\ RLeq(Val(ret), ROne)

\* C17 amended: a value returned by score_students or score_grouping lies
\* between 0.0 and the average weight of the survey's questions (the sum of
\* the weights divided by the number of questions).
C17_ObjectiveWithinAverageWeight ==
    (call.op \in ScoreCalls /\ ret.kind = "ok") =>
        RLeq(RZero, Val(ret)) /\ RLeq(Val(ret), AverageWeight)

\* after a set_weight call a grouping of two groups scored above 1.0
C17_Witness ==
    /\ call.op = "score_grouping"
    /\ Len(call.grp) = 2
    /\ ret.kind = "ok"
    /\ ~RLeq(Val(ret), ROne)
    /\ ret = Ok(AverageWeight)

\* some student of the last score_students call has no recorded answer to some
\* question of the survey
SomeAnswerMissing ==
    \E id \in DOMAIN questions : \E k \in 1..Len(call.sts) :
        Gathered(id)[k] = None

\* C18: score_students returns 0.0, without raising, whenever one of the given
\* students has no recorded answer to one of the survey's questions, whichever
\* question it is and whatever the other questions would score.
C18_MissingAnswerGivesZero ==
    (call.op = "score_students" /\ SomeAnswerMissing) => ret = Ok(RZero)

----------------------------------------------------------------------------
(* Properties of score_grouping, checked under SpecScore *)

\* what score_students gives for the k-th group of the last call's grouping
GroupScore(k) ==
    score_students(questions, criteria, weights, answers,
                   get_members(call.grp[k]))

RECURSIVE GroupScoreSum(_)
GroupScoreSum(S) ==
    IF S = {} THEN RZero
    ELSE LET k == CHOOSE x \in S : TRUE
         IN  RAdd(Val(GroupScore(k)), GroupScoreSum(S \ {k}))

\* C16: score_grouping returns 0.0 for a grouping without groups, and
\* otherwise the sum of score_students(members) over the groups divided by the
\* number of groups, whatever the sizes of the groups (when score_students
\* raises for a group, so does score_grouping).
C16_GroupingIsGroupAverage ==
    call.op = "score_grouping" =>
        LET n == Len(call.grp)
        IN  /\ n = 0 => ret = Ok(RZero)
            /\ (n > 0 /\ \A k \in 1..n : GroupScore(k).kind = "ok") =>
                   ret = Ok(RDivInt(GroupScoreSum(1..n), n))
            /\ (\E k \in 1..n : GroupScore(k).kind # "ok") => ret.kind # "ok"

\* two groups of different sizes with different scores were averaged
C16_Witness ==
    /\ call.op = "score_grouping"
    /\ Len(call.grp) = 2
    /\ Len(call.grp[1]) = 1
    /\ Len(call.grp[2]) = 2
    /\ GroupScore(1).kind = "ok"
    /\ GroupScore(2).kind = "ok"
    /\ GroupScore(1) # GroupScore(2)
    /\ ret.kind = "ok"

----------------------------------------------------------------------------
(* Properties of the groupers, checked under SpecGrouper *)

\* the place of a student in the order by name, ties in id order
NamePosition(st) ==
    1 + Cardinality({k \in 1..Len(co_students) :
            \/ co_students[k].name < st.name
            \/ co_students[k].name = st.name /\ co_students[k].id < st.id})

\* the number of places a student id takes in the grouping
Places(id) ==
    Cardinality({p \in (1..Len(grouping)) \X (1..Len(co_students)) :
        p[2] <= Len(grouping[p[1]]) /\ grouping[p[1]][p[2]] = id})

\* C15: for a population whose size is a positive multiple of the group size,
\* AlphaGrouper.make_grouping returns size / group size groups of exactly
\* group-size members, every student is in exactly one group, and the groups
\* are the consecutive chunks of the population sorted by name (ties in id
\* order): the result is fixed by the population and the group size alone,
\* whatever the survey holds.
C15_AlphaChunksByName ==
    g_call.op = "alpha" =>
        LET size == g_call.arg[1]
        IN  /\ Len(grouping) * size = Len(co_students)
            /\ \A k \in 1..Len(grouping) : Len(grouping[k]) = size
            /\ \A k \in 1..Len(co_students) : Places(co_students[k].id) = 1
            /\ \A k \in 1..Len(co_students) :
                   LET pos == NamePosition(co_students[k]) - 1
                   IN  grouping[(pos \div size) + 1][(pos % size) + 1]
                           = co_students[k].id

\* four students in two groups of two under a survey with questions: the two
\* students who share the first name in id order, then the other two
C15_Witness ==
    /\ g_call.op = "alpha"
    /\ g_call.arg = <<2>>
    /\ DOMAIN questions # {}
    /\ grouping = <<<<3, 4>>, <<1, 2>>>>

\* the score of a grouping under the survey and the recorded answers
ScoreOf(grp) == score_grouping(questions, criteria, weights, answers, grp)

\* the alphabetical grouping the last make_grouping call starts from
Baseline == AlphaGrouping(co_students, g_call.arg[1])

\* C13: the grouping GreedyGrouper.make_grouping returns scores not lower
\* than the AlphaGrouper grouping of the same population and group size, and
\* no applied swap lowers the score of the grouping it is applied to.
C13_GreedyNeverBelowBaseline ==
    /\ []((g_call.op = "greedy" /\ g_ret = Returned) =>
              /\ ScoreOf(Baseline).kind = "ok"
              /\ ScoreOf(grouping).kind = "ok"
              /\ RLeq(Val(ScoreOf(Baseline)), Val(ScoreOf(grouping))))
    /\ [][(g_ret = Searching /\ grouping' # grouping) =>
              /\ ScoreOf(grouping).kind = "ok"
              /\ ScoreOf(grouping').kind = "ok"
              /\ RLeq(Val(ScoreOf(grouping)), Val(ScoreOf(grouping')))]_vars

\* the search returned a grouping other than the alphabetical one, with a
\* higher score
C13_Witness ==
    /\ g_call.op = "greedy"
    /\ g_ret = Returned
    /\ grouping # Baseline
    /\ ScoreOf(Baseline).kind = "ok"
    /\ RLess(Val(ScoreOf(Baseline)), Val(ScoreOf(grouping)))

\* the search has returned a grouping on which a further pass applies no swap
AtLocalOptimum ==
    /\ g_ret = Returned
    /\ GreedyPass(questions, criteria, weights, answers, grouping)
           = [kind |-> "grouping", groups |-> grouping]

\* C14: the greedy search ends only at a local optimum: once it is no longer
\* running it has returned a grouping reached by a pass in which no swap
\* improves the score, and a search started again from that grouping applies
\* no swap.
C14_SearchEndsAtLocalOptimum ==
    (g_call.op = "greedy" /\ g_ret # Searching) => AtLocalOptimum

====
